---- MODULE Spec2Model ----
(***************************************************************************)
(* A model of dbapi.py: six query functions over a MySQL database of IPv4  *)
(* and IPv6 addresses.  Each function is modelled statement by statement:  *)
(* the cursor it opens, the statements it executes, the rows it fetches,   *)
(* the debug event it logs and the value it returns or the exception it    *)
(* raises.  The database is read-only for this module; it is chosen at     *)
(* Init and never changes.                                                 *)
(***************************************************************************)
EXTENDS Integers, Sequences, FiniteSets, TLC

VARIABLES
    db,        \* the relations the queries read
    call,      \* the function being called and its arguments
    pc,        \* position inside the function ("idle" before the first call)
    cursor,    \* "none" | "open" | "closed": the cursor of the current call
    stmts,     \* statements executed by the current call, in order
    pending,   \* result set held by the cursor, not fetched yet
    loc,       \* local variables of the function
    outcome,   \* how the call ended: returned value or raised exception
    events     \* MODULE_LOGGER.debug calls made by the current call

vars == <<db, call, pc, cursor, stmts, pending, loc, outcome, events>>

----------------------------------------------------------------------------
(* Bounds and input sets *)

\* The two address tables together hold at most MaxRows rows.
MaxRows == 3

\* Python's None; also the empty tuple, which `if limit:` treats alike.
None == <<>>

\* (offset, row count) tuples passed as `limit`.
Pages == {<<0, 1>>, <<1, 1>>}

Limits == Pages \cup {None}

\* Textual addresses: the separator and the groups between separators.
Lit(s, g) == [sep |-> s, groups |-> g]

V4a == Lit(".", <<0, 0, 0, 1>>)
V4b == Lit(".", <<0, 0, 0, 2>>)
V6a == Lit(":", <<0, 0, 0, 0, 0, 0, 0, 1>>)
V6b == Lit(":", <<0, 0, 0, 0, 0, 0, 0, 2>>)
BadAddr == Lit(".", <<0, 0, 0, 256>>)

AddrTexts == {V4a, V4b, V6a, V6b, BadAddr}

\* Numeric addresses stored in the address column of either table.
AddrVals == {1, 2}

\* Calendar days, and datetimes as <<day, hour>>.
Days == {1, 2}

DateTimes == {<<1, 0>>, <<1, 1>>, <<2, 0>>}

SourceNames == {"A", "B"}

----------------------------------------------------------------------------
(* Helpers on sequences *)

Min(a, b) == IF a < b THEN a ELSE b

Max(a, b) == IF a > b THEN a ELSE b

\* Sequences over S of length at most n.
SeqUpTo(S, n) == UNION {[1..k -> S] : k \in 0..n}

----------------------------------------------------------------------------
(* Address decoding: get_ip_data and the netaddr.IPAddress it relies on *)

\* netaddr.IPAddress(text).version, or 0 when the text is no IP address
\* (IPAddress raises AddrFormatError).
IPVersion(text) ==
    IF text.sep = "." /\ Len(text.groups) = 4
          /\ \A i \in 1..4 : text.groups[i] \in 0..255 THEN 4
    ELSE IF text.sep = ":" /\ Len(text.groups) = 8
          /\ \A i \in 1..8 : text.groups[i] \in 0..65535 THEN 6
    ELSE 0

RECURSIVE GroupsValue(_, _, _)
\* The integer a sequence of groups denotes, most significant group first.
GroupsValue(groups, base, acc) ==
    IF groups = <<>> THEN acc
    ELSE GroupsValue(Tail(groups), base, acc * base + Head(groups))

\* netaddr.IPAddress(text).value
IPValue(text) ==
    GroupsValue(text.groups, IF IPVersion(text) = 4 THEN 256 ELSE 65536, 0)

RECURSIVE Bin(_)
\* Python's bin(n) without the "0b" prefix: binary digits, most significant first.
Bin(n) == IF n < 2 THEN <<n>> ELSE Bin(n \div 2) \o <<n % 2>>

\* get_ip_data: the value as it is formatted into the statement text (a
\* decimal number for version 4, a 0b... bit literal for version 6) and the
\* version; ok is FALSE when IPAddress raises.
get_ip_data(ip_address) ==
    LET ip_version == IPVersion(ip_address) IN
    IF ip_version = 0
    THEN [ok |-> FALSE, value |-> None, version |-> 0]
    ELSE [ok |-> TRUE,
          value |-> IF ip_version = 4
                    THEN [form |-> "dec", n |-> IPValue(ip_address)]
                    ELSE [form |-> "bin", bits |-> Bin(IPValue(ip_address))],
          version |-> ip_version]

RECURSIVE BitsValue(_, _)
BitsValue(bits, acc) ==
    IF bits = <<>> THEN acc ELSE BitsValue(Tail(bits), 2 * acc + Head(bits))

\* The number MySQL reads from a numeric literal of a statement.
SqlNumber(literal) ==
    IF literal.form = "dec" THEN literal.n ELSE BitsValue(literal.bits, 0)

\* datetime.date(): the day of a datetime, as formatted into the statement.
Date(datetime) == datetime[1]

\* datetime comparison startdate > enddate.
DateTimeAfter(a, b) == a[1] > b[1] \/ (a[1] = b[1] /\ a[2] > b[2])

----------------------------------------------------------------------------
(* The database *)

\* SQL NULL in an id column.
NULL == 0

\* A table's rows with their auto-increment ids, in table order.
WithIds(data) ==
    [i \in 1..Len(data) |->
        [id |-> i, address |-> data[i].address, date_added |-> data[i].date_added]]

RowData == [address : AddrVals, date_added : Days]

\* sources: A was modified on day 1, B on day 2.
SourcesTable ==
    << [id |-> 1, source_name |-> "A", url_date_modified |-> 1],
       [id |-> 2, source_name |-> "B", url_date_modified |-> 2] >>

\* source_to_addresses: A contributed v4 rows 1, 2 and v6 rows 1, 2;
\* B contributed v4 row 2 only.
SourceToAddresses ==
    { [source_id |-> 1, v4_id |-> 1, v6_id |-> NULL],
      [source_id |-> 1, v4_id |-> 2, v6_id |-> NULL],
      [source_id |-> 1, v4_id |-> NULL, v6_id |-> 1],
      [source_id |-> 1, v4_id |-> NULL, v6_id |-> 2],
      [source_id |-> 2, v4_id |-> 2, v6_id |-> NULL] }

ListRow(ver, id) ==
    [v4_id |-> IF ver = 4 THEN id ELSE NULL, v6_id |-> IF ver = 6 THEN id ELSE NULL]

\* whitelist and blacklist rows: v4 row 1 is whitelisted, v4 row 2 blacklisted,
\* v6 row 1 is once in the whitelist and twice in the blacklist, v6 row 2 twice
\* in each, v4 row 3 twice in the whitelist and once in the blacklist.
WhitelistTable ==
    << ListRow(4, 1), ListRow(6, 1), ListRow(6, 2), ListRow(6, 2),
       ListRow(4, 3), ListRow(4, 3) >>

BlacklistTable ==
    << ListRow(4, 2), ListRow(6, 1), ListRow(6, 1), ListRow(6, 2), ListRow(6, 2),
       ListRow(4, 3) >>

Databases ==
    { [ipv4_addresses |-> WithIds(t4), ipv6_addresses |-> WithIds(t6),
       sources |-> SourcesTable, source_to_addresses |-> SourceToAddresses,
       whitelist |-> WhitelistTable, blacklist |-> BlacklistTable] :
      <<t4, t6>> \in { p \in SeqUpTo(RowData, MaxRows) \X SeqUpTo(RowData, MaxRows) :
                       Len(p[1]) + Len(p[2]) <= MaxRows } }

----------------------------------------------------------------------------
(* Statements: the SQL text each function formats *)

\* A variant of AppendLimit that formats the row count alone (LIMIT count).
AppendLimitCountOnly(sql, limit) ==
    IF limit # None THEN [sql EXCEPT !.limit = <<0, limit[2]>>] ELSE sql

\* `if limit: sql = sql[:-1] + " LIMIT %s, %s;" % limit`
AppendLimit(sql, limit) ==
    IF limit # None THEN [sql EXCEPT !.limit = limit] ELSE sql

\* SELECT * FROM ip<v>_addresses WHERE id IN (SELECT source_to_addresses.<v>_id
\* FROM source_to_addresses JOIN sources ... WHERE sources.source_name = name)
BySourceStmt(ver, sourcename, limit) ==
    AppendLimit([q |-> "by_source", ver |-> ver, name |-> sourcename,
                 limit |-> None], limit)

\* SELECT * FROM ipv<v>_addresses WHERE address BETWEEN lo AND hi
RangeStmt(ver, lo, hi, limit) ==
    AppendLimit([q |-> "range", ver |-> ver, lo |-> lo, hi |-> hi,
                 limit |-> None], limit)

\* SELECT count(*) FROM <list> WHERE v<v>_id_<list> =
\* (SELECT id FROM ipv<v>_addresses WHERE address = value)
ListCountStmt(list, ver, value) ==
    [q |-> "list_count", list |-> list, ver |-> ver, value |-> value]

\* SELECT * FROM ipv<v>_addresses WHERE date_added BETWEEN 'd1' AND 'd2'
AddedStmt(ver, startdate, enddate, limit) ==
    AppendLimit([q |-> "added", ver |-> ver, d1 |-> Date(startdate),
                 d2 |-> Date(enddate), limit |-> None], limit)

\* SELECT * FROM sources WHERE url_date_modified BETWEEN "d1" AND "d2"
SourcesStmt(startdate, enddate, limit) ==
    AppendLimit([q |-> "sources", d1 |-> Date(startdate), d2 |-> Date(enddate),
                 limit |-> None], limit)

\* A variant of ExistsStmt that always names the ipv4_addresses table.
ExistsStmtV4Only(ver, value) ==
    [q |-> "exists", ver |-> 4, value |-> value]

\* SELECT count(id) FROM ipv<v>_addresses WHERE address = value
ExistsStmt(ver, value) ==
    [q |-> "exists", ver |-> ver, value |-> value]

----------------------------------------------------------------------------
(* What the datastore answers to a statement *)

AddressTable(d, ver) == IF ver = 4 THEN d.ipv4_addresses ELSE d.ipv6_addresses

\* LIMIT offset, count: skip offset rows, keep at most count.
ApplyLimit(rows, limit) ==
    IF limit = None THEN rows
    ELSE SubSeq(rows, limit[1] + 1, Min(Len(rows), limit[1] + limit[2]))

\* The ids the by-source subquery selects for one version.
SourceIds(d, ver, sourcename) ==
    { IF ver = 4 THEN l.v4_id ELSE l.v6_id :
        l \in { m \in d.source_to_addresses :
                  \E i \in 1..Len(d.sources) :
                     /\ d.sources[i].id = m.source_id
                     /\ d.sources[i].source_name = sourcename } } \ {NULL}

\* The rows of the scalar subquery SELECT id ... WHERE address = value.
AddressIds(d, ver, value) ==
    SelectSeq(AddressTable(d, ver), LAMBDA r : r.address = SqlNumber(value))

\* MySQL rejects a scalar subquery that returns more than one row.
StatementError(stmt, d) ==
    stmt.q = "list_count" /\ Len(AddressIds(d, stmt.ver, stmt.value)) > 1

ListCount(d, stmt) ==
    LET ids == AddressIds(d, stmt.ver, stmt.value)
        list == IF stmt.list = "whitelist" THEN d.whitelist ELSE d.blacklist
        col(r) == IF stmt.ver = 4 THEN r.v4_id ELSE r.v6_id
    IN IF ids = <<>> THEN 0
       ELSE Len(SelectSeq(list, LAMBDA r : col(r) = ids[1].id))

\* The result set of a statement: rows in table order, or the single row of
\* a count.
Exec(stmt, d) ==
    CASE stmt.q = "by_source" ->
           ApplyLimit(SelectSeq(AddressTable(d, stmt.ver),
                LAMBDA r : r.id \in SourceIds(d, stmt.ver, stmt.name)), stmt.limit)
      [] stmt.q = "range" ->
           ApplyLimit(SelectSeq(AddressTable(d, stmt.ver),
                LAMBDA r : SqlNumber(stmt.lo) <= r.address
                           /\ r.address <= SqlNumber(stmt.hi)), stmt.limit)
      [] stmt.q = "added" ->
           ApplyLimit(SelectSeq(AddressTable(d, stmt.ver),
                LAMBDA r : stmt.d1 <= r.date_added /\ r.date_added <= stmt.d2),
                stmt.limit)
      [] stmt.q = "sources" ->
           ApplyLimit(SelectSeq(d.sources,
                LAMBDA r : stmt.d1 <= r.url_date_modified
                           /\ r.url_date_modified <= stmt.d2), stmt.limit)
      [] stmt.q = "list_count" -> << <<ListCount(d, stmt)>> >>
      [] stmt.q = "exists" ->
           << <<Len(AddressIds(d, stmt.ver, stmt.value))>> >>

----------------------------------------------------------------------------
(* Steps shared by the functions.  pc "Ln" means: line n of dbapi.py is the *)
(* next to run.                                                             *)

NoOutcome == [kind |-> "none", value |-> None]

InitLoc ==
    [sql |-> <<>>, result_v4 |-> <<>>, result_v6 |-> <<>>, result |-> <<>>,
     whitelist_count |-> -1, blacklist_count |-> -1]

Call(op, a1, a2, limit) == [op |-> op, a1 |-> a1, a2 |-> a2, limit |-> limit]

\* A caller may call a function when no call is running.
CanCall == pc = "idle"

\* Entering a function: fresh locals, nothing executed, nothing logged.
Enter(c) ==
    /\ CanCall
    /\ call' = c
    /\ stmts' = <<>>
    /\ pending' = <<>>
    /\ events' = 0
    /\ db' = db

\* `raise`: the exception leaves the function; nothing else runs.
Raise(error) ==
    /\ pc' = "done"
    /\ outcome' = [kind |-> "raise", value |-> error]

\* `return value`
Return(value) ==
    /\ pc' = "done"
    /\ outcome' = [kind |-> "return", value |-> value]

\* What a call of MODULE_LOGGER.debug can do: log the event, or raise.
LoggerOutcomes == {"logged", "raised"}

\* cursor.execute(stmt): the datastore answers, or the statement fails and
\* MySQLdb raises; the failure leaves the function at once.
Execute(stmt, next) ==
    /\ stmts' = Append(stmts, stmt)
    /\ \E failure \in BOOLEAN :
          IF failure \/ StatementError(stmt, db)
          THEN /\ Raise("DatastoreError")
               /\ pending' = pending
          ELSE /\ pending' = Exec(stmt, db)
               /\ pc' = next
               /\ outcome' = outcome
    /\ UNCHANGED <<db, call, cursor, loc, events>>

\* MODULE_LOGGER.debug(...) followed by `return value`.
DebugAndReturn(value) ==
    /\ \E logger \in LoggerOutcomes :
          IF logger = "logged"
          THEN events' = events + 1 /\ Return(value)
          ELSE events' = events /\ Raise("LoggerError")
    /\ UNCHANGED <<db, call, cursor, stmts, pending, loc>>

----------------------------------------------------------------------------
(* get_ip_with_source_name(connection, sourcename, limit) *)

\* lines 43-57: open the cursor, build both statements
get_ip_with_source_name_L43 ==
    \E sourcename \in SourceNames, limit \in Limits :
       /\ Enter(Call("get_ip_with_source_name", sourcename, None, limit))
       /\ cursor' = "open"
       /\ loc' = [InitLoc EXCEPT !.sql = << BySourceStmt(4, sourcename, limit),
                                            BySourceStmt(6, sourcename, limit) >>]
       /\ pc' = "L59"
       /\ outcome' = NoOutcome

get_ip_with_source_name_L59 ==
    /\ pc = "L59"
    /\ Execute(loc.sql[1], "L60")

get_ip_with_source_name_L60 ==
    /\ pc = "L60"
    /\ loc' = [loc EXCEPT !.result_v4 = pending]
    /\ pending' = <<>>
    /\ pc' = "L61"
    /\ UNCHANGED <<db, call, cursor, stmts, outcome, events>>

get_ip_with_source_name_L61 ==
    /\ pc = "L61"
    /\ Execute(loc.sql[2], "L62")

get_ip_with_source_name_L62 ==
    /\ pc = "L62"
    /\ loc' = [loc EXCEPT !.result_v6 = pending]
    /\ pending' = <<>>
    /\ pc' = "L64"
    /\ UNCHANGED <<db, call, cursor, stmts, outcome, events>>

\* A variant of Concat with the operands swapped.
ConcatSwapped(result_v4, result_v6) == result_v6 \o result_v4

\* result_v4 + result_v6
Concat(result_v4, result_v6) == result_v4 \o result_v6

\* lines 64-65: merge, close the cursor
get_ip_with_source_name_L64 ==
    /\ pc = "L64"
    /\ loc' = [loc EXCEPT !.result = Concat(loc.result_v4, loc.result_v6)]
    /\ cursor' = "closed"
    /\ pc' = "L66"
    /\ UNCHANGED <<db, call, stmts, pending, outcome, events>>

get_ip_with_source_name_L66 ==
    /\ pc = "L66"
    /\ DebugAndReturn(loc.result)

----------------------------------------------------------------------------
(* get_ip_from_range(connection, start, end, limit) *)

\* A variant of VersionsDiffer that never reports a difference.
VersionsNeverDiffer(start_version, end_version) == FALSE

\* line 98: start_version != end_version
VersionsDiffer(start_version, end_version) == start_version # end_version

\* lines 88-101: open the cursor, decode both ends, check the versions,
\* format the statement
get_ip_from_range_L88 ==
    \E start \in AddrTexts, end \in AddrTexts, limit \in Limits :
       LET s == get_ip_data(start)
           e == get_ip_data(end)
       IN /\ Enter(Call("get_ip_from_range", start, end, limit))
          /\ cursor' = "open"
          /\ IF ~s.ok \/ ~e.ok
             THEN Raise("InvalidAddressError") /\ loc' = InitLoc
             ELSE IF VersionsDiffer(s.version, e.version)
             THEN Raise("VersionMismatchError") /\ loc' = InitLoc
             ELSE /\ loc' = [InitLoc EXCEPT
                               !.sql = << RangeStmt(s.version, s.value, e.value, limit) >>]
                  /\ pc' = "L102"
                  /\ outcome' = NoOutcome

get_ip_from_range_L102 ==
    /\ pc = "L102"
    /\ Execute(loc.sql[1], "L103")

get_ip_from_range_L103 ==
    /\ pc = "L103"
    /\ loc' = [loc EXCEPT !.result = pending]
    /\ pending' = <<>>
    /\ pc' = "L104"
    /\ UNCHANGED <<db, call, cursor, stmts, outcome, events>>

get_ip_from_range_L104 ==
    /\ pc = "L104"
    /\ cursor' = "closed"
    /\ pc' = "L105"
    /\ UNCHANGED <<db, call, stmts, pending, loc, outcome, events>>

get_ip_from_range_L105 ==
    /\ pc = "L105"
    /\ DebugAndReturn(loc.result)

----------------------------------------------------------------------------
(* find_ip_list_type(connection, ip_address) *)

\* lines 140-145: what the two counts decide.  "raise" is the exception of
\* line 142, "none" the `return None` of line 143.
ListTypeDecision(whitelist_count, blacklist_count) ==
    IF whitelist_count = blacklist_count
    THEN IF whitelist_count > 0 THEN "raise" ELSE "none"
    ELSE IF whitelist_count > 0 THEN "whitelist" ELSE "blacklist"

\* lines 122-134: open the cursor, decode, format both count statements
find_ip_list_type_L122 ==
    \E ip_address \in AddrTexts :
       LET d == get_ip_data(ip_address)
       IN /\ Enter(Call("find_ip_list_type", ip_address, None, None))
          /\ cursor' = "open"
          /\ IF ~d.ok
             THEN Raise("InvalidAddressError") /\ loc' = InitLoc
             ELSE /\ loc' = [InitLoc EXCEPT
                               !.sql = << ListCountStmt("whitelist", d.version, d.value),
                                          ListCountStmt("blacklist", d.version, d.value) >>]
                  /\ pc' = "L135"
                  /\ outcome' = NoOutcome

find_ip_list_type_L135 ==
    /\ pc = "L135"
    /\ Execute(loc.sql[1], "L137")

\* cursor.fetchone()[0]
find_ip_list_type_L137 ==
    /\ pc = "L137"
    /\ loc' = [loc EXCEPT !.whitelist_count = pending[1][1]]
    /\ pending' = <<>>
    /\ pc' = "L138"
    /\ UNCHANGED <<db, call, cursor, stmts, outcome, events>>

find_ip_list_type_L138 ==
    /\ pc = "L138"
    /\ Execute(loc.sql[2], "L139")

find_ip_list_type_L139 ==
    /\ pc = "L139"
    /\ loc' = [loc EXCEPT !.blacklist_count = pending[1][1]]
    /\ pending' = <<>>
    /\ pc' = "L140"
    /\ UNCHANGED <<db, call, cursor, stmts, outcome, events>>

\* lines 140-145: raise, return None, or close the cursor and name the list
find_ip_list_type_L140 ==
    /\ pc = "L140"
    /\ LET decision == ListTypeDecision(loc.whitelist_count, loc.blacklist_count)
       IN IF decision = "raise"
          THEN Raise("IntegrityViolationError") /\ UNCHANGED <<cursor, loc>>
          ELSE IF decision = "none"
          THEN Return("none") /\ UNCHANGED <<cursor, loc>>
          ELSE /\ cursor' = "closed"
               /\ loc' = [loc EXCEPT !.result = decision]
               /\ pc' = "L146"
               /\ outcome' = outcome
    /\ UNCHANGED <<db, call, stmts, pending, events>>

find_ip_list_type_L146 ==
    /\ pc = "L146"
    /\ DebugAndReturn(loc.result)

----------------------------------------------------------------------------
(* get_ips_added_in_range(connection, startdate, enddate, limit) *)

\* lines 165-175: check the window, build the statements, open the cursor
get_ips_added_in_range_L165 ==
    \E startdate \in DateTimes, enddate \in DateTimes, limit \in Limits :
       /\ Enter(Call("get_ips_added_in_range", startdate, enddate, limit))
       /\ IF DateTimeAfter(startdate, enddate)
          THEN /\ Raise("InvalidRangeError")
               /\ cursor' = "none"
               /\ loc' = InitLoc
          ELSE /\ cursor' = "open"
               /\ loc' = [InitLoc EXCEPT
                            !.sql = << AddedStmt(4, startdate, enddate, limit),
                                       AddedStmt(6, startdate, enddate, limit) >>]
               /\ pc' = "L176"
               /\ outcome' = NoOutcome

get_ips_added_in_range_L176 ==
    /\ pc = "L176"
    /\ Execute(loc.sql[1], "L177")

get_ips_added_in_range_L177 ==
    /\ pc = "L177"
    /\ loc' = [loc EXCEPT !.result_v4 = pending]
    /\ pending' = <<>>
    /\ pc' = "L179"
    /\ UNCHANGED <<db, call, cursor, stmts, outcome, events>>

get_ips_added_in_range_L179 ==
    /\ pc = "L179"
    /\ Execute(loc.sql[2], "L180")

get_ips_added_in_range_L180 ==
    /\ pc = "L180"
    /\ loc' = [loc EXCEPT !.result_v6 = pending]
    /\ pending' = <<>>
    /\ pc' = "L181"
    /\ UNCHANGED <<db, call, cursor, stmts, outcome, events>>

\* lines 181-182: close the cursor, merge
get_ips_added_in_range_L181 ==
    /\ pc = "L181"
    /\ cursor' = "closed"
    /\ loc' = [loc EXCEPT !.result = Concat(loc.result_v4, loc.result_v6)]
    /\ pc' = "L183"
    /\ UNCHANGED <<db, call, stmts, pending, outcome, events>>

\* lines 183-187: log, return result_v4 + result_v6
get_ips_added_in_range_L183 ==
    /\ pc = "L183"
    /\ DebugAndReturn(Concat(loc.result_v4, loc.result_v6))

----------------------------------------------------------------------------
(* get_sources_modified_in_range(connection, startdate, enddate, limit) *)

\* lines 205-212: open the cursor, format the statement
get_sources_modified_in_range_L205 ==
    \E startdate \in DateTimes, enddate \in DateTimes, limit \in Limits :
       /\ Enter(Call("get_sources_modified_in_range", startdate, enddate, limit))
       /\ cursor' = "open"
       /\ loc' = [InitLoc EXCEPT !.sql = << SourcesStmt(startdate, enddate, limit) >>]
       /\ pc' = "L213"
       /\ outcome' = NoOutcome

get_sources_modified_in_range_L213 ==
    /\ pc = "L213"
    /\ Execute(loc.sql[1], "L214")

get_sources_modified_in_range_L214 ==
    /\ pc = "L214"
    /\ loc' = [loc EXCEPT !.result = pending]
    /\ pending' = <<>>
    /\ pc' = "L215"
    /\ UNCHANGED <<db, call, cursor, stmts, outcome, events>>

get_sources_modified_in_range_L215 ==
    /\ pc = "L215"
    /\ cursor' = "closed"
    /\ pc' = "L216"
    /\ UNCHANGED <<db, call, stmts, pending, loc, outcome, events>>

get_sources_modified_in_range_L216 ==
    /\ pc = "L216"
    /\ DebugAndReturn(loc.result)

----------------------------------------------------------------------------
(* check_if_ip_in_database(connection, ip_address) *)

\* line 242: True if result else False
Truthy(count) == count # 0

\* lines 233-238: decode, format the statement, open the cursor
check_if_ip_in_database_L233 ==
    \E ip_address \in AddrTexts :
       LET d == get_ip_data(ip_address)
       IN /\ Enter(Call("check_if_ip_in_database", ip_address, None, None))
          /\ IF ~d.ok
             THEN /\ Raise("InvalidAddressError")
                  /\ cursor' = "none"
                  /\ loc' = InitLoc
             ELSE /\ cursor' = "open"
                  /\ loc' = [InitLoc EXCEPT !.sql = << ExistsStmt(d.version, d.value) >>]
                  /\ pc' = "L239"
                  /\ outcome' = NoOutcome

check_if_ip_in_database_L239 ==
    /\ pc = "L239"
    /\ Execute(loc.sql[1], "L240")

\* cursor.fetchone()[0]
check_if_ip_in_database_L240 ==
    /\ pc = "L240"
    /\ loc' = [loc EXCEPT !.result = pending[1][1]]
    /\ pending' = <<>>
    /\ pc' = "L241"
    /\ UNCHANGED <<db, call, cursor, stmts, outcome, events>>

\* lines 241-242: close the cursor, turn the count into a boolean
check_if_ip_in_database_L241 ==
    /\ pc = "L241"
    /\ cursor' = "closed"
    /\ loc' = [loc EXCEPT !.result = Truthy(loc.result)]
    /\ pc' = "L243"
    /\ UNCHANGED <<db, call, stmts, pending, outcome, events>>

check_if_ip_in_database_L243 ==
    /\ pc = "L243"
    /\ DebugAndReturn(loc.result)

----------------------------------------------------------------------------
(* The system *)

Init ==
    /\ db \in Databases
    /\ call = Call("none", None, None, None)
    /\ pc = "idle"
    /\ cursor = "none"
    /\ stmts = <<>>
    /\ pending = <<>>
    /\ loc = InitLoc
    /\ outcome = NoOutcome
    /\ events = 0

\* The call is over: the caller has the value or the exception, the function's
\* frame is gone, and the connection is ready for the next call.
BackToCaller ==
    /\ pc = "done"
    /\ pc' = "idle"
    /\ call' = Call("none", None, None, None)
    /\ cursor' = "none"
    /\ stmts' = <<>>
    /\ pending' = <<>>
    /\ loc' = InitLoc
    /\ outcome' = NoOutcome
    /\ events' = 0
    /\ db' = db

Next ==
    \/ BackToCaller
    \/ get_ip_with_source_name_L43
    \/ get_ip_with_source_name_L59
    \/ get_ip_with_source_name_L60
    \/ get_ip_with_source_name_L61
    \/ get_ip_with_source_name_L62
    \/ get_ip_with_source_name_L64
    \/ get_ip_with_source_name_L66
    \/ get_ip_from_range_L88
    \/ get_ip_from_range_L102
    \/ get_ip_from_range_L103
    \/ get_ip_from_range_L104
    \/ get_ip_from_range_L105
    \/ find_ip_list_type_L122
    \/ find_ip_list_type_L135
    \/ find_ip_list_type_L137
    \/ find_ip_list_type_L138
    \/ find_ip_list_type_L139
    \/ find_ip_list_type_L140
    \/ find_ip_list_type_L146
    \/ get_ips_added_in_range_L165
    \/ get_ips_added_in_range_L176
    \/ get_ips_added_in_range_L177
    \/ get_ips_added_in_range_L179
    \/ get_ips_added_in_range_L180
    \/ get_ips_added_in_range_L181
    \/ get_ips_added_in_range_L183
    \/ get_sources_modified_in_range_L205
    \/ get_sources_modified_in_range_L213
    \/ get_sources_modified_in_range_L214
    \/ get_sources_modified_in_range_L215
    \/ get_sources_modified_in_range_L216
    \/ check_if_ip_in_database_L233
    \/ check_if_ip_in_database_L239
    \/ check_if_ip_in_database_L240
    \/ check_if_ip_in_database_L241
    \/ check_if_ip_in_database_L243

Spec == Init /\ [][Next]_vars

TypeOK ==
    /\ cursor \in {"none", "open", "closed"}
    /\ outcome.kind \in {"none", "return", "raise"}
    /\ events \in 0..1

----------------------------------------------------------------------------
(* Properties *)

Done == pc = "done"

Returned == Done /\ outcome.kind = "return"

Raised(error) == Done /\ outcome.kind = "raise" /\ outcome.value = error

\* Failures that come from the collaborators, not from the function's own checks.
CollaboratorErrors == {"DatastoreError", "LoggerError"}

TwoVersionOps == {"get_ip_with_source_name", "get_ips_added_in_range"}

PagedOps ==
    TwoVersionOps \cup {"get_ip_from_range", "get_sources_modified_in_range"}

\* C1: whenever a call has ended, by return or by exception, the cursor it
\* opened has been closed.
C1_CursorClosedAtEnd == Done => cursor # "open"

\* C2: a find_ip_list_type call that fetched whitelist count w and blacklist
\* count b ends, unless a collaborator failed, as follows: w = b > 0 raises the
\* integrity violation; w = b = 0 returns none; w > b returns whitelist;
\* b > w returns blacklist.
C2_ClassifyByLargerCount ==
    ( /\ Done
      /\ call.op = "find_ip_list_type"
      /\ loc.blacklist_count >= 0
      /\ ~(outcome.kind = "raise" /\ outcome.value \in CollaboratorErrors) )
    => LET w == loc.whitelist_count
           b == loc.blacklist_count
       IN /\ (w = b /\ w > 0) => Raised("IntegrityViolationError")
          /\ (w = b /\ w = 0) => (Returned /\ outcome.value = "none")
          /\ w > b => (Returned /\ outcome.value = "whitelist")
          /\ b > w => (Returned /\ outcome.value = "blacklist")

\* C3: a find_ip_list_type call that fetched a nonzero count from both lists
\* ends, unless a collaborator failed, in the integrity violation and never
\* returns a list name.
C3_BothListsIsViolation ==
    ( /\ Done
      /\ call.op = "find_ip_list_type"
      /\ loc.whitelist_count > 0
      /\ loc.blacklist_count > 0
      /\ ~(outcome.kind = "raise" /\ outcome.value \in CollaboratorErrors) )
    => Raised("IntegrityViolationError")

\* C4: a date-window call (addresses added, sources modified) with
\* startdate > enddate never returns a result: it raises the invalid-range
\* error (or, at most, a collaborator's failure).
C4_DateWindowChecked ==
    ( /\ Done
      /\ call.op \in {"get_ips_added_in_range", "get_sources_modified_in_range"}
      /\ DateTimeAfter(call.a1, call.a2) )
    => /\ outcome.kind = "raise"
       /\ outcome.value \in {"InvalidRangeError"} \cup CollaboratorErrors

MixedVersions(c) ==
    /\ c.op = "get_ip_from_range"
    /\ IPVersion(c.a1) # 0
    /\ IPVersion(c.a2) # 0
    /\ IPVersion(c.a1) # IPVersion(c.a2)

\* C5: a get_ip_from_range call whose two valid ends have different versions
\* raises the version mismatch, and at no point of the call has a statement
\* been executed or a result set been produced.
C5_VersionMismatchNoStatement ==
    MixedVersions(call) =>
        /\ Raised("VersionMismatchError")
        /\ stmts = <<>>
        /\ pending = <<>>

C5_Witness ==
    /\ MixedVersions(call)
    /\ Done
    /\ IPVersion(call.a1) = 6

\* C6: on the same database, check_if_ip_in_database(a) returns TRUE exactly
\* when the range query from a to a without limit has rows: a returned
\* membership equals the non-emptiness of that range query, and a returned
\* range a..a is non-empty exactly when the existence count is nonzero.
C6_ContainsIffRangeNonEmpty ==
    /\ (Returned /\ call.op = "check_if_ip_in_database") =>
          LET d == get_ip_data(call.a1)
          IN outcome.value =
                (Exec(RangeStmt(d.version, d.value, d.value, None), db) # <<>>)
    /\ (Returned /\ call.op = "get_ip_from_range" /\ call.a1 = call.a2
          /\ call.limit = None) =>
          LET d == get_ip_data(call.a1)
          IN (outcome.value # <<>>) =
                (Exec(ExistsStmt(d.version, d.value), db)[1][1] > 0)

C6_Witness ==
    /\ Returned
    /\ call.op = "check_if_ip_in_database"
    /\ IPVersion(call.a1) = 6
    /\ outcome.value = TRUE
    /\ db.ipv4_addresses = <<>>

\* The statement without its LIMIT clause.
Unlimited(stmt) == [stmt EXCEPT !.limit = None]

\* rows without the first offset rows, cut to at most count rows.
PageRows(rows, offset, count) ==
    [i \in 1..Min(count, Max(0, Len(rows) - offset)) |-> rows[offset + i]]

\* block is exactly the page of what stmt selects without its LIMIT.
IsPageOf(block, stmt, page) ==
    /\ Len(block) <= page[2]
    /\ block = PageRows(Exec(Unlimited(stmt), db), page[1], page[2])

\* C7: in a call given a page (offset, count), every executed statement
\* carries that offset and count; when the call returns, each statement's
\* block is the unpaged rows without the first offset rows and cut to count
\* rows, so a two-statement result has at most 2 * count rows and a
\* one-statement result at most count.
C7_PagePerStatement ==
    (call.op \in PagedOps /\ call.limit \in Pages) =>
       /\ \A i \in 1..Len(stmts) : stmts[i].limit = call.limit
       /\ (Returned /\ call.op \in TwoVersionOps) =>
             /\ IsPageOf(loc.result_v4, stmts[1], call.limit)
             /\ IsPageOf(loc.result_v6, stmts[2], call.limit)
             /\ Len(outcome.value) = Len(loc.result_v4) + Len(loc.result_v6)
             /\ Len(outcome.value) <= 2 * call.limit[2]
       /\ (Returned /\ call.op \notin TwoVersionOps) =>
             IsPageOf(outcome.value, stmts[1], call.limit)

\* A paged two-version call that returned more rows than count, its
\* version-4 block cut short by the page.
C7_Witness ==
    /\ Returned
    /\ call.op \in TwoVersionOps
    /\ call.limit \in Pages
    /\ Len(outcome.value) > call.limit[2]
    /\ Len(Exec(Unlimited(stmts[1]), db)) > Len(loc.result_v4)

\* The rows of a block keep the order of their table (ids ascend).
InTableOrder(block) ==
    \A i \in 1..Len(block), j \in 1..Len(block) : i < j => block[i].id < block[j].id

\* C8: in get_ip_with_source_name and get_ips_added_in_range the first
\* statement executed is the version-4 one and the second the version-6 one;
\* the version-6 statement is executed only after the version-4 rows have
\* been fetched; a call that returns has executed both, and returns the
\* version-4 rows in table order followed by the version-6 rows in table order.
C8_V4ThenV6 ==
    call.op \in TwoVersionOps =>
       /\ Len(stmts) <= 2
       /\ Len(stmts) >= 1 => stmts[1].ver = 4
       /\ Len(stmts) = 2 =>
             /\ stmts[2].ver = 6
             /\ stmts[2] = [stmts[1] EXCEPT !.ver = 6]
             /\ loc.result_v4 = Exec(stmts[1], db)
       /\ Returned =>
             /\ Len(stmts) = 2
             /\ outcome.value = Exec(stmts[1], db) \o Exec(stmts[2], db)
             /\ InTableOrder(SubSeq(outcome.value, 1, Len(loc.result_v4)))
             /\ InTableOrder(SubSeq(outcome.value, Len(loc.result_v4) + 1,
                                    Len(outcome.value)))

\* A returned two-version result with rows of both versions, the version-6
\* table holding other rows than the version-4 table.
C8_Witness ==
    /\ Returned
    /\ call.op \in TwoVersionOps
    /\ loc.result_v4 # <<>>
    /\ loc.result_v6 # <<>>
    /\ loc.result_v4 # loc.result_v6

\* C9: a failure of MODULE_LOGGER.debug never decides how a call ends: no
\* call ends with the logger's exception in place of its result.
C9_LoggerFailureHarmless == ~Raised("LoggerError")

\* C10: every call that returns has logged exactly one debug event, and the
\* event is logged only as the call's last step, after all its statements.
C10_OneEventPerReturn ==
    /\ Returned => events = 1
    /\ events = 1 => Done

====
